---------------------------- MODULE Spec2Model ----------------------------
(***************************************************************************)
(* A model of the widgets of viewidget.py.                                 *)
(*                                                                         *)
(* LED (specifications Spec and FairSpec): its on/off state, the blink and *)
(* fade animations driven by Tk "after" timers, and the brightness the     *)
(* fade steps compute.  Dial (DialSpec): the checks of the constructor's   *)
(* keyword arguments, the case and the ticks it draws, and set_value with  *)
(* the needle's angle, the stops of a bound Dial and the readout; the      *)
(* checks of size and casewidth of the LED's constructor are there too.    *)
(* Digit (DigitSpec): set_value and set_mask over the seven segments.      *)
(*                                                                         *)
(* The floats of the program are IEEE 754 doubles, and every operation on  *)
(* them rounds as the program's does; an int is the float of the same      *)
(* value, which all the ints met here have.  Colours are not modelled: of  *)
(* the dictionary self.current only the entry 'brightness' is kept.        *)
(*                                                                         *)
(* Tk's timer queue is the pair afterBlink (ids of the pending callbacks   *)
(* of self.blink) and afterFade (the pending closures of _fade).  Timer    *)
(* ids are opaque in the program, which keeps only the two most recent     *)
(* ones in blinkID and fadeID; the model hands out the least id that is    *)
(* neither pending nor remembered in blinkID or fadeID.                    *)
(*                                                                         *)
(* time() is an input: a fade closure carries the number of milliseconds   *)
(* that had elapsed since its fade started when it was scheduled, and a    *)
(* firing chooses how late after the 20 ms time step the callback runs.    *)
(***************************************************************************)
EXTENDS Integers, Sequences, FiniteSets, TLC

\* ------------------------------------------------------------------ bounds

\* How many irregular events one run has: callbacks of _fade that run late
\* and calls of set_brightness, both of which take the brightness off the even
\* steps of a fade.
MaxIrregular == 1

\* How many fades that do not end at once one run begins, the one of the
\* constructor among them.
MaxFades == 2

\* The element of a singleton set.  An operator below takes each argument as
\* the element of a singleton set, which has it evaluated once however often
\* the operator uses it.
The(S) == CHOOSE x \in S : TRUE

\* ---------------------------------------------------- floating-point numbers

\* A Python float is an IEEE 754 double.  The model keeps one as
\* <<s, n, e>>, the number s * n * 2^e: s is 1 or -1, e an integer, and n an
\* odd natural number below 2^53, held as its digits in base 2^15, the least
\* significant first, since it exceeds the integers of TLC.  Zero is
\* <<0, <<>>, 0>>; the sign of a zero is not kept, and no number of the model
\* is near the ends of the exponent range.  An arithmetic operation returns
\* the exact result rounded to the nearest double, a tie to the even one.
Base == 32768
LimbBits == 15
MantissaBits == 53

\* Natural numbers of any size: sequences of digits in base Base, without
\* leading zeros; <<>> is 0.
RECURSIVE BNorm(_)
BNorm(a0) ==
    The({ (
        IF a = <<>> THEN a
        ELSE IF a[Len(a)] = 0 THEN BNorm(SubSeq(a, 1, Len(a) - 1))
        ELSE a
    ) : a \in {a0} })

RECURSIVE BAddC(_, _, _)
BAddC(a0, b0, c0) ==
    The({ (
        IF a = <<>> /\ b = <<>> THEN (IF c = 0 THEN <<>> ELSE <<c>>)
        ELSE The({ <<x % Base>> \o
                       BAddC(IF a = <<>> THEN a ELSE Tail(a),
                             IF b = <<>> THEN b ELSE Tail(b), x \div Base) :
                   x \in {(IF a = <<>> THEN 0 ELSE a[1])
                              + (IF b = <<>> THEN 0 ELSE b[1]) + c} })
    ) : a \in {a0}, b \in {b0}, c \in {c0} })

BAdd(a, b) == BAddC(a, b, 0)

\* a - b - c for a >= b + c, digit by digit; leading zeros are left in.
RECURSIVE BSubC(_, _, _)
BSubC(a0, b0, c0) ==
    The({ (
        IF a = <<>> THEN <<>>
        ELSE The({ <<x % Base>> \o
                       BSubC(Tail(a), IF b = <<>> THEN b ELSE Tail(b),
                             IF x < 0 THEN 1 ELSE 0) :
                   x \in {a[1] - (IF b = <<>> THEN 0 ELSE b[1]) - c} })
    ) : a \in {a0}, b \in {b0}, c \in {c0} })

BSub(a, b) == BNorm(BSubC(a, b, 0))

\* -1, 0 or 1 as a is below, equal to or above b
RECURSIVE BCmp(_, _)
BCmp(a0, b0) ==
    The({ (
        IF Len(a) # Len(b) THEN (IF Len(a) < Len(b) THEN -1 ELSE 1)
        ELSE IF a = <<>> THEN 0
        ELSE IF a[Len(a)] # b[Len(b)]
        THEN (IF a[Len(a)] < b[Len(b)] THEN -1 ELSE 1)
        ELSE BCmp(BNorm(SubSeq(a, 1, Len(a) - 1)),
                  BNorm(SubSeq(b, 1, Len(b) - 1)))
    ) : a \in {a0}, b \in {b0} })

\* a * k + c for 0 <= k, c < Base
RECURSIVE BMulSmall(_, _, _)
BMulSmall(a0, k0, c0) ==
    The({ (
        IF a = <<>> THEN (IF c = 0 THEN <<>> ELSE <<c>>)
        ELSE The({ <<x % Base>> \o BMulSmall(Tail(a), k, x \div Base) :
                   x \in {a[1] * k + c} })
    ) : a \in {a0}, k \in {k0}, c \in {c0} })

RECURSIVE BMul(_, _)
BMul(a0, b0) ==
    The({ (
        IF a = <<>> \/ b = <<>> THEN <<>>
        ELSE BAdd(BNorm(BMulSmall(a, b[1], 0)), BNorm(<<0>> \o BMul(a, Tail(b))))
    ) : a \in {a0}, b \in {b0} })

\* a * 2^n
BShl(a0, n0) ==
    The({ (
        IF a = <<>> THEN a
        ELSE [i \in 1..(n \div LimbBits) |-> 0]
                 \o BMulSmall(a, 2 ^ (n % LimbBits), 0)
    ) : a \in {a0}, n \in {n0} })

\* a \div k for 0 < k < Base, from the most significant digit down; r is the
\* remainder of the digits above.
RECURSIVE BDivSmallR(_, _)
BDivSmallR(a0, k0) ==
    The({ (
        IF a = <<>> THEN <<<<>>, 0>>
        ELSE The({ (
                 The({ <<<<x \div k>> \o hi[1], x % k>> :
                       x \in {hi[2] * Base + a[1]} })
             ) : hi \in {BDivSmallR(Tail(a), k)} })
    ) : a \in {a0}, k \in {k0} })

\* a \div 2^n
BShr(a0, n0) ==
    The({ (
        IF Len(a) <= n \div LimbBits THEN <<>>
        ELSE BNorm(BDivSmallR(SubSeq(a, n \div LimbBits + 1, Len(a)),
                              2 ^ (n % LimbBits))[1])
    ) : a \in {a0}, n \in {n0} })

\* The number of binary digits of an integer k >= 0 and of a.
RECURSIVE IntBitLen(_)
IntBitLen(k0) ==
    The({ (
        IF k = 0 THEN 0 ELSE 1 + IntBitLen(k \div 2)
    ) : k \in {k0} })

BBitLen(a0) ==
    The({ (
        IF a = <<>> THEN 0
        ELSE LimbBits * (Len(a) - 1) + IntBitLen(a[Len(a)])
    ) : a \in {a0} })

\* Binary digit n of a, digit 0 the least significant.
BBit(a0, n0) ==
    The({ (
        IF Len(a) <= n \div LimbBits THEN 0
        ELSE (a[n \div LimbBits + 1] \div 2 ^ (n % LimbBits)) % 2
    ) : a \in {a0}, n \in {n0} })

\* How many binary digits 0 a # 0 ends with.
RECURSIVE IntTrailing(_)
IntTrailing(k0) ==
    The({ (
        IF k % 2 = 1 THEN 0 ELSE 1 + IntTrailing(k \div 2)
    ) : k \in {k0} })

RECURSIVE BTrailing(_)
BTrailing(a0) ==
    The({ (
        IF a[1] = 0 THEN LimbBits + BTrailing(Tail(a)) ELSE IntTrailing(a[1])
    ) : a \in {a0} })

\* The integer a < 2^30 is.
BInt(a0) ==
    The({ (
        IF a = <<>> THEN 0
        ELSE IF Len(a) = 1 THEN a[1]
        ELSE a[1] + Base * a[2]
    ) : a \in {a0} })

\* r \div b for r < b * Base: a digit of a quotient.  With the 15 leading
\* binary digits of b and the digits of r above the same place the estimate
\* is at most the digit and a few units short of it; the remainder tells.
RECURSIVE BDigitUp(_, _, _)
BDigitUp(q0, r0, b0) ==
    The({ (
        IF BCmp(r, b) < 0 THEN <<q, r>> ELSE BDigitUp(q + 1, BSub(r, b), b)
    ) : q \in {q0}, r \in {r0}, b \in {b0} })

BDigit(r0, b0) ==
    The({ (
        The({ (
            The({ (
                BDigitUp(q, BSub(r, BNorm(BMulSmall(b, q, 0))), b)
            ) : q \in {IF shift = 0 THEN BInt(r) \div BInt(b)
                       ELSE BInt(BShr(r, shift))
                                \div (BInt(BShr(b, shift)) + 1)} })
        ) : shift \in {IF BBitLen(b) > LimbBits
                       THEN BBitLen(b) - LimbBits ELSE 0} })
    ) : r \in {r0}, b \in {b0} })

\* <<a \div b, a % b>> for b # 0, from the most significant digit of a down.
RECURSIVE BDivMod(_, _)
BDivMod(a0, b0) ==
    The({ (
        IF a = <<>> THEN <<<<>>, <<>>>>
        ELSE The({ (
                 The({ <<BNorm(<<d[1]>> \o hi[1]), d[2]>> :
                       d \in {BDigit(BNorm(<<a[1]>> \o hi[2]), b)} })
             ) : hi \in {BDivMod(Tail(a), b)} })
    ) : a \in {a0}, b \in {b0} })

FZero == <<0, <<>>, 0>>

\* s * n * 2^e with n made odd.
Canon(s0, n0, e0) ==
    The({ (
        IF n = <<>> \/ s = 0 THEN FZero
        ELSE The({ <<s, BShr(n, t), e + t>> : t \in {BTrailing(n)} })
    ) : s \in {s0}, n \in {n0}, e \in {e0} })

\* The double nearest to s * n * 2^e, for n odd or 0.  With k digits too
\* many, the digit below the last one kept decides; n is odd, so the digits
\* dropped make exactly half a unit only for k = 1, the tie.
FRound(x0) ==
    The({ (
        The({ (
            IF k <= 0 THEN x
            ELSE The({ (
                     Canon(x[1],
                           IF BBit(x[2], k - 1) = 1 /\ (k > 1 \/ BBit(q, 0) = 1)
                           THEN BAdd(q, <<1>>) ELSE q,
                           x[3] + k)
                 ) : q \in {BShr(x[2], k)} })
        ) : k \in {BBitLen(x[2]) - MantissaBits} })
    ) : x \in {x0} })

\* The exact sum and product of two numbers.
XAdd(x0, y0) ==
    The({ (
        IF x[1] = 0 THEN y
        ELSE IF y[1] = 0 THEN x
        ELSE The({ (
                 IF x[1] = y[1] THEN Canon(x[1], BAdd(a, b), e)
                 ELSE IF BCmp(a, b) = 0 THEN FZero
                 ELSE IF BCmp(a, b) > 0 THEN Canon(x[1], BSub(a, b), e)
                 ELSE Canon(y[1], BSub(b, a), e)
             ) : e \in {IF x[3] < y[3] THEN x[3] ELSE y[3]},
                 a \in {BShl(x[2], IF x[3] < y[3] THEN 0 ELSE x[3] - y[3])},
                 b \in {BShl(y[2], IF x[3] < y[3] THEN y[3] - x[3] ELSE 0)} })
    ) : x \in {x0}, y \in {y0} })

XMul(x0, y0) ==
    The({ (
        IF x[1] = 0 \/ y[1] = 0 THEN FZero
        ELSE Canon(x[1] * y[1], BMul(x[2], y[2]), x[3] + y[3])
    ) : x \in {x0}, y \in {y0} })

FNeg(x0) ==
    The({ (
        <<-x[1], x[2], x[3]>>
    ) : x \in {x0} })

FAbs(x0) ==
    The({ (
        <<x[1] * x[1], x[2], x[3]>>
    ) : x \in {x0} })

\* x + y, x - y, x * y and x / y of floats
FAdd(x, y) == FRound(XAdd(x, y))
FSub(x, y) == FRound(XAdd(x, FNeg(y)))
FMul(x, y) == FRound(XMul(x, y))

\* The quotient is worked out to 56 binary digits or more; a remainder left
\* is marked by one more digit 1 below them, which the rounding sees.
FDiv(x0, y0) ==
    The({ (
        IF x[1] = 0 THEN FZero
        ELSE The({ (
                 The({ (
                     IF qr[2] = <<>>
                     THEN FRound(Canon(x[1] * y[1], qr[1], x[3] - y[3] - k))
                     ELSE FRound(<<x[1] * y[1],
                                   BMulSmall(qr[1], 2, 1),
                                   x[3] - y[3] - k - 1>>)
                 ) : qr \in {BDivMod(BShl(x[2], k), y[2])} })
             ) : k \in {IF MantissaBits + 3 + BBitLen(y[2]) > BBitLen(x[2])
                         THEN MantissaBits + 3 + BBitLen(y[2]) - BBitLen(x[2])
                         ELSE 0} })
    ) : x \in {x0}, y \in {y0} })

\* x < y and x <= y of floats
FSign(x) == x[1]
FLt(x, y) == FSign(XAdd(x, FNeg(y))) < 0
FLe(x, y) == FSign(XAdd(x, FNeg(y))) <= 0

\* The float an integer i with |i| < Base is.
RECURSIVE FInt(_)
FInt(i0) ==
    The({ (
        IF i = 0 THEN FZero
        ELSE IF i < 0 THEN FNeg(FInt(-i))
        ELSE Canon(1, <<i>>, 0)
    ) : i \in {i0} })

\* math.fsum(seq): the exact sum, rounded once.
RECURSIVE XSum(_)
XSum(seq0) ==
    The({ (
        IF seq = <<>> THEN FZero ELSE XAdd(Head(seq), XSum(Tail(seq)))
    ) : seq \in {seq0} })

fsum(seq) == FRound(XSum(seq))

\* mean(iterable): math.fsum(iterable) / max(len(iterable), 1)
mean(iterable0) ==
    The({ (
        FDiv(fsum(iterable),
             FInt(IF Len(iterable) > 1 THEN Len(iterable) ELSE 1))
    ) : iterable \in {iterable0} })

\* round(x) of a float: the integer nearest to x, a tie to the even one, as a
\* float.  x may be exact, with more than 53 digits.
FNearest(x0) ==
    The({ (
        IF x[3] >= 0 THEN x
        ELSE The({ (
                 The({ (
                     Canon(x[1],
                           IF BBit(x[2], k - 1) = 1 /\ (k > 1 \/ BBit(q, 0) = 1)
                           THEN BAdd(q, <<1>>) ELSE q,
                           0)
                 ) : q \in {BShr(x[2], k)} })
             ) : k \in {-x[3]} })
    ) : x \in {x0} })

\* The integer a sequence of digits is, for one that TLC's integers hold.
RECURSIVE BValue(_)
BValue(a0) ==
    The({ (
        IF a = <<>> THEN 0 ELSE a[1] + Base * BValue(Tail(a))
    ) : a \in {a0} })

\* int(x) of a float: x without its fraction.
FTrunc(x0) ==
    The({ (
        x[1] * BValue(IF x[3] >= 0 THEN BShl(x[2], x[3])
                      ELSE BShr(x[2], -x[3]))
    ) : x \in {x0} })

\* int(round(x)) of a float
PyRound(x) == FTrunc(FNearest(x))

\* x % y of floats x >= 0 and y > 0, which is exact.
FMod(x0, y0) ==
    The({ (
        IF x[1] = 0 THEN FZero
        ELSE The({ (
                 Canon(1,
                       BDivMod(BShl(x[2], x[3] - e), BShl(y[2], y[3] - e))[2],
                       e)
             ) : e \in {IF x[3] < y[3] THEN x[3] ELSE y[3]} })
    ) : x \in {x0}, y \in {y0} })

\* ------------------------------------------------------- program constants

ON == 1
OFF == 0
fadetimestep == 20
LatencyWindow == 10

\* Python truth of the argument of turn() and fade(), and "not x".
Truthy(x) == x # 0
Not(x0) ==
    The({ (
        IF Truthy(x) THEN OFF ELSE ON
    ) : x \in {x0} })

\* ------------------------------------------------------------------ inputs

\* Rates passed to set_blinkrate and, as blinkrate, to the constructor (ms):
\* -1 raises, 1/2 rounds to 0 and 3/2 to 2.
BlinkRates ==
    {FInt(-1), FInt(0), FDiv(FInt(1), FInt(2)), FDiv(FInt(3), FInt(2))}

\* Rates passed to set_faderate and, as faderate, to the constructor (ms):
\* -1/2 raises and 141/2 rounds to 70, a fade of four time steps.
FadeRates == {FDiv(FInt(-1), FInt(2)), FInt(0), FDiv(FInt(141), FInt(2))}

\* Levels passed to set_brightness: -0.5, 4 / 7 and 1.5.
Levels ==
    {FDiv(FInt(-1), FInt(2)), FDiv(FInt(4), FInt(7)), FDiv(FInt(3), FInt(2))}

\* Lateness of a callback of _fade, in ms past the time step it asked for.
Lateness == {0, 8}

\* ------------------------------------------------------------------- state

VARIABLES
    state,        \* self.state: ON or OFF
    faderate,     \* self.faderate, ms
    blinkrate,    \* self.blinkrate, ms
    fadeID,       \* self.fadeID: id of the last fade timer scheduled, 0 at first
    blinkID,      \* self.blinkID: id of the last blink timer scheduled, 0 at first
    isblinking,   \* self.isblinking
    brightness,   \* self.current['brightness'], a float
    afterBlink,   \* Tk: ids of the pending callbacks of self.blink
    afterFade,    \* Tk: the pending closures of _fade
    last,         \* the operation that ran last, "idle" back in the mainloop
    pre,          \* the object's fields when that operation started
    raised,       \* whether it raised an exception
    quiet,        \* the application has stopped calling methods
    irregular,    \* late callbacks of _fade and calls of set_brightness so far
    fades,        \* fades begun so far that did not end at once
    kw,           \* the keyword arguments a Dial or LED is constructed with
    dial,         \* the Dial object
    ledcase,      \* the case of the LED constructed with kw
    digit         \* the Digit object

vars == <<state, faderate, blinkrate, fadeID, blinkID, isblinking, brightness,
          afterBlink, afterFade, last, pre, raised, quiet, irregular, fades,
          kw, dial, ledcase, digit>>

\* The variables of the LED and of its timers.
LEDVars == <<state, faderate, blinkrate, fadeID, blinkID, isblinking,
             brightness, afterBlink, afterFade, quiet, irregular, fades>>

\* The variables of the other widgets.
Others == <<kw, dial, ledcase, digit>>

\* A widget the program has not constructed, and one whose constructor raised.
Absent == [built |-> FALSE, error |-> FALSE]
Failed == [built |-> FALSE, error |-> TRUE]

\* The LED object together with its timers, as the methods below see it.
Self ==
    [state |-> state, faderate |-> faderate, blinkrate |-> blinkrate,
     fadeID |-> fadeID, blinkID |-> blinkID, isblinking |-> isblinking,
     brightness |-> brightness, afterBlink |-> afterBlink,
     afterFade |-> afterFade]

\* ----------------------------------------------------------------- methods

\* self.after(ms, callback): a timer id unused so far.
NewID(s0) ==
    The({ (
        The({ (
            CHOOSE i \in 1..(Cardinality(used) + 1) :
                i \notin used /\ \A j \in 1..(i - 1) : j \in used
        ) : used \in {s.afterBlink \cup {c.id : c \in s.afterFade}
                          \cup {s.blinkID, s.fadeID}} })
    ) : s \in {s0} })

\* set_brightness without "if level >= 1": a level above 1 is stored as it is.
set_brightness_unclamped(s0, level0) ==
    The({ (
        IF FLe(level, FInt(0))
        THEN [s EXCEPT !.brightness = FInt(0)]
        ELSE IF Truthy(s.state) \/ FLt(level, s.brightness)
        THEN [s EXCEPT !.brightness = level]
        ELSE s
    ) : s \in {s0}, level \in {level0} })

\* LED.set_brightness(level), as far as current['brightness'] goes.
set_brightness(s0, level0) ==
    The({ (
        IF FLe(level, FInt(0))
        THEN [s EXCEPT !.brightness = FInt(0)]
        ELSE IF Truthy(s.state) \/ FLt(level, s.brightness)
        THEN IF FLe(FInt(1), level)
             THEN [s EXCEPT !.brightness = FInt(1)]
             ELSE [s EXCEPT !.brightness = level]
        ELSE s
    ) : s \in {s0}, level \in {level0} })

\* _fade with "remaintime >= self.fadetimestep" for ">".
fade_step_ge(s0, c0, elapsed0) ==
    The({ (
        IF FLe(FInt(fadetimestep), c.remaintime)
        THEN The({ (
                 The({ (
                     The({ (
                         [s1 EXCEPT
                             !.fadeID = id,
                             !.afterFade = @ \cup
                                 {[id |-> id, target |-> c.target,
                                   total |-> c.total,
                                   latency |->
                                       Append(latency,
                                              FSub(c.remaintime, remaintime)),
                                   remaintime |->
                                       FSub(remaintime, FInt(fadetimestep)),
                                   elapsed |-> elapsed, superseded |-> FALSE]}]
                     ) : id \in {NewID(s1)} })
                 ) : s1 \in {set_brightness(
                                 s,
                                 FAdd(s.brightness,
                                      FMul(FDiv(remainbrightness, c.remaintime),
                                           FAdd(FInt(fadetimestep),
                                                mean(latency)))))},
                     remaintime \in {FSub(c.total, FInt(elapsed))} })
             ) : latency \in {IF Len(c.latency) > LatencyWindow
                              THEN Tail(c.latency) ELSE c.latency},
                 remainbrightness \in {FSub(FInt(c.target), s.brightness)} })
        ELSE set_brightness(s, FInt(c.target))
    ) : s \in {s0}, c \in {c0}, elapsed \in {elapsed0} })

\* _fade without its else branch: the last call leaves the brightness alone.
fade_step_no_final(s0, c0, elapsed0) ==
    The({ (
        IF FLt(FInt(fadetimestep), c.remaintime)
        THEN The({ (
                 The({ (
                     The({ (
                         [s1 EXCEPT
                             !.fadeID = id,
                             !.afterFade = @ \cup
                                 {[id |-> id, target |-> c.target,
                                   total |-> c.total,
                                   latency |->
                                       Append(latency,
                                              FSub(c.remaintime, remaintime)),
                                   remaintime |->
                                       FSub(remaintime, FInt(fadetimestep)),
                                   elapsed |-> elapsed, superseded |-> FALSE]}]
                     ) : id \in {NewID(s1)} })
                 ) : s1 \in {set_brightness(
                                 s,
                                 FAdd(s.brightness,
                                      FMul(FDiv(remainbrightness, c.remaintime),
                                           FAdd(FInt(fadetimestep),
                                                mean(latency)))))},
                     remaintime \in {FSub(c.total, FInt(elapsed))} })
             ) : latency \in {IF Len(c.latency) > LatencyWindow
                              THEN Tail(c.latency) ELSE c.latency},
                 remainbrightness \in {FSub(FInt(c.target), s.brightness)} })
        ELSE s
    ) : s \in {s0}, c \in {c0}, elapsed \in {elapsed0} })

\* The inner function _fade(remaintime) of LED.fade, called with the closure
\* c of its fade when elapsed ms have passed since the fade's starttime.
fade_step(s0, c0, elapsed0) ==
    The({ (
        IF FLt(FInt(fadetimestep), c.remaintime)
        THEN The({ (
                 The({ (
                     The({ (
                         [s1 EXCEPT
                             !.fadeID = id,
                             !.afterFade = @ \cup
                                 {[id |-> id, target |-> c.target,
                                   total |-> c.total,
                                   latency |->
                                       Append(latency,
                                              FSub(c.remaintime, remaintime)),
                                   remaintime |->
                                       FSub(remaintime, FInt(fadetimestep)),
                                   elapsed |-> elapsed, superseded |-> FALSE]}]
                     ) : id \in {NewID(s1)} })
                 ) : s1 \in {set_brightness(
                                 s,
                                 FAdd(s.brightness,
                                      FMul(FDiv(remainbrightness, c.remaintime),
                                           FAdd(FInt(fadetimestep),
                                                mean(latency)))))},
                     remaintime \in {FSub(c.total, FInt(elapsed))} })
             ) : latency \in {IF Len(c.latency) > LatencyWindow
                              THEN Tail(c.latency) ELSE c.latency},
                 remainbrightness \in {FSub(FInt(c.target), s.brightness)} })
        ELSE set_brightness(s, FInt(c.target))
    ) : s \in {s0}, c \in {c0}, elapsed \in {elapsed0} })

\* fade without "if self.fadeID: self.after_cancel(self.fadeID)".
fade_no_cancel(s0, st0) ==
    The({ (
        The({ (
            The({ (
                The({ (
                    fade_step(s2,
                              [id |-> 0, target |-> targetbrightness,
                               total |-> targetremainingtime,
                               latency |-> <<>>,
                               remaintime |-> targetremainingtime,
                               elapsed |-> 0, superseded |-> FALSE],
                              0)
                ) : targetremainingtime \in
                        {FMul(FAbs(FSub(FInt(targetbrightness), s2.brightness)),
                              FInt(s2.faderate))} })
            ) : s2 \in {[s1 EXCEPT
                            !.state = targetbrightness,
                            !.afterFade =
                                {[c EXCEPT !.superseded = TRUE] : c \in @}]} })
        ) : s1 \in {s}, targetbrightness \in {IF Truthy(st) THEN ON ELSE OFF} })
    ) : s \in {s0}, st \in {st0} })

\* LED.fade(state).  A closure that is still pending when another fade
\* starts is marked superseded.
fade(s0, st0) ==
    The({ (
        The({ (
            The({ (
                The({ (
                    fade_step(s2,
                              [id |-> 0, target |-> targetbrightness,
                               total |-> targetremainingtime,
                               latency |-> <<>>,
                               remaintime |-> targetremainingtime,
                               elapsed |-> 0, superseded |-> FALSE],
                              0)
                ) : targetremainingtime \in
                        {FMul(FAbs(FSub(FInt(targetbrightness), s2.brightness)),
                              FInt(s2.faderate))} })
            ) : s2 \in {[s1 EXCEPT
                            !.state = targetbrightness,
                            !.afterFade =
                                {[c EXCEPT !.superseded = TRUE] : c \in @}]} })
        ) : s1 \in {IF s.fadeID # 0
                     THEN [s EXCEPT
                              !.afterFade = {c \in @ : c.id # s.fadeID}]
                     ELSE s},
            targetbrightness \in {IF Truthy(st) THEN ON ELSE OFF} })
    ) : s \in {s0}, st \in {st0} })

\* blink_cancel without self.after_cancel(self.blinkID).
blink_cancel_keeps_timer(s0) ==
    The({ (
        IF s.blinkID # 0 THEN [s EXCEPT !.isblinking = FALSE] ELSE s
    ) : s \in {s0} })

\* LED.blink_cancel()
blink_cancel(s0) ==
    The({ (
        IF s.blinkID # 0
        THEN [s EXCEPT !.afterBlink = @ \ {s.blinkID}, !.isblinking = FALSE]
        ELSE s
    ) : s \in {s0} })

\* self.blinkID = self.after(self.blinkrate, self.blink); self.isblinking = True
after_blink(s0) ==
    The({ (
        The({ [s EXCEPT !.blinkID = id, !.afterBlink = @ \cup {id},
                        !.isblinking = TRUE] :
              id \in {NewID(s)} })
    ) : s \in {s0} })

\* turn without self.blink_cancel() when it turns the LED off.
turn_no_cancel(s0, st0) ==
    The({ (
        IF ~Truthy(st)
        THEN IF Truthy(s.state) THEN fade(s, OFF) ELSE s
        ELSE IF ~Truthy(s.state) /\ ~s.isblinking
        THEN fade(IF s.blinkrate # 0 THEN after_blink(s) ELSE s, ON)
        ELSE s
    ) : s \in {s0}, st \in {st0} })

\* LED.turn(state)
turn(s0, st0) ==
    The({ (
        IF ~Truthy(st)
        THEN The({ (
                 IF Truthy(s1.state) THEN fade(s1, OFF) ELSE s1
             ) : s1 \in {blink_cancel(s)} })
        ELSE IF ~Truthy(s.state) /\ ~s.isblinking
        THEN fade(IF s.blinkrate # 0 THEN after_blink(s) ELSE s, ON)
        ELSE s
    ) : s \in {s0}, st \in {st0} })

\* LED.turnon()
turnon(s) == turn(s, ON)

\* LED.turnoff()
turnoff(s) == turn(s, OFF)

\* LED.change_state()
change_state(s0) ==
    The({ (
        turn(s, Not(s.state))
    ) : s \in {s0} })

\* blink without the timer it sets after it has turned the LED off.
blink_no_reschedule(s0) ==
    The({ (
        The({ (
            IF s1.blinkrate # 0 THEN change_state(s1) ELSE s1
        ) : s1 \in {blink_cancel(s)} })
    ) : s \in {s0} })

\* LED.blink()
blink(s0) ==
    The({ (
        The({ (
            IF s1.blinkrate # 0
            THEN The({ (
                     IF ~Truthy(s2.state) THEN after_blink(s2) ELSE s2
                 ) : s2 \in {change_state(s1)} })
            ELSE s1
        ) : s1 \in {blink_cancel(s)} })
    ) : s \in {s0} })

\* set_blinkrate without the branch that stops the blinking at rate 0.
set_blinkrate_keeps_blinking(s0, rate0) ==
    The({ (
        The({ (
            IF s1.blinkrate # 0 /\ Truthy(s1.state) /\ ~s1.isblinking
            THEN blink(s1)
            ELSE s1
        ) : s1 \in {[s EXCEPT !.blinkrate = PyRound(rate)]} })
    ) : s \in {s0}, rate \in {rate0} })

\* LED.set_blinkrate(rate) when it does not raise
set_blinkrate(s0, rate0) ==
    The({ (
        The({ (
            IF s1.blinkrate # 0 /\ Truthy(s1.state) /\ ~s1.isblinking
            THEN blink(s1)
            ELSE IF s1.blinkrate = 0 /\ s1.isblinking
            THEN turnon(blink_cancel(s1))
            ELSE s1
        ) : s1 \in {[s EXCEPT !.blinkrate = PyRound(rate)]} })
    ) : s \in {s0}, rate \in {rate0} })

\* LED.set_faderate(rate) when it does not raise
set_faderate(s0, rate0) ==
    The({ (
        [s EXCEPT !.faderate = PyRound(rate)]
    ) : s \in {s0}, rate \in {rate0} })

RateRaises_never(rate) ==
    FALSE

\* "if rate >= 0: ... else: raise ViewidgetError" of both rate setters
RateRaises(rate) ==
    ~FLe(FInt(0), rate)

\* LED.__init__(state=initstate, faderate=frate, blinkrate=brate): the rates
\* are set on the fresh object, then turn(initstate) runs last.
Constructed(initstate, frate, brate) ==
    LET s0 == [state |-> OFF, faderate |-> 0, blinkrate |-> 0, fadeID |-> 0,
               blinkID |-> 0, isblinking |-> FALSE, brightness |-> FInt(0),
               afterBlink |-> {}, afterFade |-> {}]
    IN  turn(set_blinkrate(set_faderate(s0, frate), brate), initstate)

\* ----------------------------------------------------------------- actions

\* The object becomes what operation op, which ran from Self, returns; exc
\* tells whether op raised ViewidgetError.
Becomes(result, op, exc) ==
    /\ last' = op
    /\ raised' = exc
    /\ pre' = [state |-> state, isblinking |-> isblinking]
    /\ \E s \in {result} :
          /\ state' = s.state
          /\ faderate' = s.faderate
          /\ blinkrate' = s.blinkrate
          /\ fadeID' = s.fadeID
          /\ blinkID' = s.blinkID
          /\ isblinking' = s.isblinking
          /\ brightness' = s.brightness
          /\ afterBlink' = s.afterBlink
          /\ afterFade' = s.afterFade
    /\ UNCHANGED Others

\* The same for an operation that can begin a fade.  A fade that does not end
\* at once leaves a callback pending that was not pending before, and a run
\* begins at most MaxFades of them.
Calls(result, op, exc) ==
    /\ Becomes(result, op, exc)
    /\ IF \E c \in result.afterFade : c \notin afterFade
       THEN fades < MaxFades /\ fades' = fades + 1
       ELSE fades' = fades

Init ==
    /\ \E initstate \in {OFF, ON} :
       \E frate \in {r \in FadeRates : ~RateRaises(r)} :
       \E brate \in {r \in BlinkRates : ~RateRaises(r)} :
          \E s \in {Constructed(initstate, frate, brate)} :
              /\ state = s.state
              /\ faderate = s.faderate
              /\ blinkrate = s.blinkrate
              /\ fadeID = s.fadeID
              /\ blinkID = s.blinkID
              /\ isblinking = s.isblinking
              /\ brightness = s.brightness
              /\ afterBlink = s.afterBlink
              /\ afterFade = s.afterFade
    /\ last = "init"
    /\ pre = [state |-> OFF, isblinking |-> FALSE]
    /\ raised = FALSE
    /\ quiet = FALSE
    /\ irregular = 0
    /\ fades = IF afterFade = {} THEN 0 ELSE 1
    /\ kw = <<>>
    /\ dial = Absent
    /\ ledcase = Absent
    /\ digit = Absent

\* The application calls the LED's methods from its event handlers, which Tk's
\* mainloop runs one at a time: a method is called when the one before has
\* returned to the mainloop.
MayCall == ~quiet /\ last = "idle"

Turn(st) ==
    /\ MayCall
    /\ Calls(turn(Self, st), IF Truthy(st) THEN "turn_on" ELSE "turn_off",
             FALSE)
    /\ UNCHANGED <<quiet, irregular>>

TurnOn ==
    /\ MayCall
    /\ Calls(turnon(Self), "turnon", FALSE)
    /\ UNCHANGED <<quiet, irregular>>

TurnOff ==
    /\ MayCall
    /\ Calls(turnoff(Self), "turnoff", FALSE)
    /\ UNCHANGED <<quiet, irregular>>

ChangeState ==
    /\ MayCall
    /\ Calls(change_state(Self), "change_state", FALSE)
    /\ UNCHANGED <<quiet, irregular>>

SetBlinkrate(rate) ==
    /\ MayCall
    /\ IF RateRaises(rate)
       THEN Calls(Self, "set_blinkrate", TRUE)
       ELSE Calls(set_blinkrate(Self, rate), "set_blinkrate", FALSE)
    /\ UNCHANGED <<quiet, irregular>>

SetFaderate(rate) ==
    /\ MayCall
    /\ IF RateRaises(rate)
       THEN Becomes(Self, "set_faderate", TRUE)
       ELSE Becomes(set_faderate(Self, rate), "set_faderate", FALSE)
    /\ UNCHANGED <<quiet, irregular, fades>>

Blink ==
    /\ MayCall
    /\ Calls(blink(Self), "blink", FALSE)
    /\ UNCHANGED <<quiet, irregular>>

BlinkCancel ==
    /\ MayCall
    /\ Becomes(blink_cancel(Self), "blink_cancel", FALSE)
    /\ UNCHANGED <<quiet, irregular, fades>>

Fade(st) ==
    /\ MayCall
    /\ Calls(fade(Self, st), IF Truthy(st) THEN "fade_on" ELSE "fade_off",
             FALSE)
    /\ UNCHANGED <<quiet, irregular>>

SetBrightness(level) ==
    /\ MayCall
    /\ irregular < MaxIrregular
    /\ irregular' = irregular + 1
    /\ Becomes(set_brightness(Self, level), "set_brightness", FALSE)
    /\ UNCHANGED <<quiet, fades>>

\* Tk's mainloop runs a pending callback of self.blink.  A fade it begins
\* counts among the MaxFades of the run while the application still calls
\* methods.
BlinkFire ==
    /\ last = "idle"
    /\ \E id \in afterBlink :
          IF quiet
          THEN /\ Becomes(blink([Self EXCEPT !.afterBlink = @ \ {id}]),
                          "blink_timer", FALSE)
               /\ fades' = fades
          ELSE Calls(blink([Self EXCEPT !.afterBlink = @ \ {id}]),
                     "blink_timer", FALSE)
    /\ UNCHANGED <<quiet, irregular>>

\* Tk's mainloop runs a pending closure of _fade, late ms after its time step.
FadeFire ==
    /\ last = "idle"
    /\ \E c \in afterFade : \E late \in Lateness :
        /\ late > 0 => irregular < MaxIrregular
        /\ irregular' = IF late > 0 THEN irregular + 1 ELSE irregular
        /\ Becomes(fade_step([Self EXCEPT !.afterFade = @ \ {c}], c,
                             c.elapsed + fadetimestep + late),
                   "fade_timer", FALSE)
        /\ UNCHANGED <<quiet, fades>>

\* The handler that called the last method returns to Tk's mainloop.
Mainloop ==
    /\ last # "idle"
    /\ last' = "idle"
    /\ pre' = [state |-> OFF, isblinking |-> FALSE]
    /\ raised' = FALSE
    /\ UNCHANGED <<LEDVars, Others>>

\* The application calls no method from now on; timers keep firing.
Quiesce ==
    /\ MayCall
    /\ quiet' = TRUE
    /\ UNCHANGED <<state, faderate, blinkrate, fadeID, blinkID, isblinking,
                   brightness, afterBlink, afterFade, last, pre, raised,
                   irregular, fades, Others>>

Next ==
    \/ \E st \in {OFF, ON} : Turn(st)
    \/ TurnOn
    \/ TurnOff
    \/ ChangeState
    \/ \E rate \in BlinkRates : SetBlinkrate(rate)
    \/ \E rate \in FadeRates : SetFaderate(rate)
    \/ Blink
    \/ BlinkCancel
    \/ \E st \in {OFF, ON} : Fade(st)
    \/ \E level \in Levels : SetBrightness(level)
    \/ BlinkFire
    \/ FadeFire
    \/ Mainloop

Spec == Init /\ [][Next]_vars

\* The application may stop calling methods for good.  Tk runs the callbacks
\* of after() from its event loop, that is while the application is idle: once
\* it is idle for good, a callback that stays pending is run.
QuietNext == Next \/ Quiesce

FairSpec ==
    /\ Init /\ [][QuietNext]_vars
    /\ WF_vars(quiet /\ BlinkFire)
    /\ WF_vars(quiet /\ FadeFire)
    /\ WF_vars(quiet /\ Mainloop)

\* -------------------------------------------------------------------- Dial

\* How many keyword arguments a constructor is called with.
MaxGiven == 2

\* Python's None, also the value of a keyword argument left out.
None == <<>>

\* The keyword arguments the constructors are called with, and the values each
\* is given, 0 and 1 for the two flags.  faderate and blinkrate are keywords of
\* the LED only, and "color" is a keyword neither constructor knows.
KwValues ==
    [size |-> {FInt(-1), FInt(0), FInt(100)},
     casewidth |-> {FInt(-1), FInt(0), FInt(10), FInt(50)},
     start |-> {FInt(-360), FInt(90), FInt(360)},
     extent |-> {FInt(-361), FInt(-360), FInt(90), FInt(360)},
     min |-> {FInt(0), FInt(220), FInt(300)},
     max |-> {FInt(0), FInt(60), FInt(100)},
     majorscale |-> {FInt(-20), FInt(0), FInt(5), FInt(30)},
     semimajorscale |-> {FInt(-1), FInt(0), FInt(4), FInt(5), FInt(15),
                         FInt(20), FInt(30)},
     minorscale |-> {FInt(-1), FInt(0), FDiv(FInt(1), FInt(2))},
     value |-> {FInt(50), FInt(60), FDiv(FInt(445), FInt(4)), FInt(250)},
     bound |-> {FInt(0), FInt(1)},
     withdisplay |-> {FInt(0), FInt(1)},
     faderate |-> {FDiv(FInt(-1), FInt(2)), FInt(0), FInt(70)},
     blinkrate |-> {FInt(-1), FInt(0), FDiv(FInt(3), FInt(2))},
     color |-> {FInt(0)}]

RECURSIVE KwargsOver(_)
KwargsOver(K) ==
    IF K = {} THEN {[x \in {} |-> None]}
    ELSE LET k == CHOOSE x \in K : TRUE
         IN  {[x \in K |-> IF x = k THEN v ELSE f[x]] :
                 v \in KwValues[k], f \in KwargsOver(K \ {k})}

Kwargs ==
    UNION {KwargsOver(K) :
              K \in {X \in SUBSET DOMAIN KwValues : Cardinality(X) <= MaxGiven}}

\* The values set_value is called with.
DialValues ==
    {None, FInt(-10), FInt(0), FInt(60), FDiv(FInt(445), FInt(4)), FInt(220),
     FInt(300), FInt(400)}

\* The keywords Dial.__init__ knows and the values it starts from.
DialKnown ==
    {"size", "casewidth", "start", "extent", "min", "max", "majorscale",
     "semimajorscale", "minorscale", "unit", "value", "bound", "withdisplay"}
DialDefaults ==
    [size |-> FInt(300), casewidth |-> FInt(15), start |-> FInt(225),
     extent |-> FInt(-270), min |-> FInt(60), max |-> FInt(220),
     majorscale |-> FInt(20), semimajorscale |-> FInt(10),
     minorscale |-> FInt(2), value |-> None, withdisplay |-> FInt(1)]

\* A local of a constructor after the loop over kwargs: the value given, or
\* the one the constructor starts from.
Arg(kwargs, defaults, key) ==
    IF key \in DOMAIN kwargs THEN kwargs[key] ELSE defaults[key]

\* Whether the loop over kwargs of Dial.__init__, or the check of min against
\* max that follows it, raises ViewidgetError.
DialRaises_start_le(kwargs0) ==
    The({ (
        \/ "size" \in DOMAIN kwargs /\ ~FLt(FInt(0), kwargs["size"])
        \/ "casewidth" \in DOMAIN kwargs /\ ~FLe(FInt(0), kwargs["casewidth"])
        \/ "start" \in DOMAIN kwargs
              /\ ~FLe(FAbs(kwargs["start"]), FInt(360))
        \/ "extent" \in DOMAIN kwargs
              /\ ~FLe(FAbs(kwargs["extent"]), FInt(360))
        \/ "majorscale" \in DOMAIN kwargs
              /\ ~FLt(FInt(0), kwargs["majorscale"])
        \/ "semimajorscale" \in DOMAIN kwargs
              /\ ~FLe(FInt(0), kwargs["semimajorscale"])
        \/ "minorscale" \in DOMAIN kwargs
              /\ ~FLe(FInt(0), kwargs["minorscale"])
        \/ DOMAIN kwargs \ DialKnown # {}
        \/ Arg(kwargs, DialDefaults, "min") = Arg(kwargs, DialDefaults, "max")
    ) : kwargs \in {kwargs0} })

DialRaises(kwargs0) ==
    The({ (
        \/ "size" \in DOMAIN kwargs /\ ~FLt(FInt(0), kwargs["size"])
        \/ "casewidth" \in DOMAIN kwargs /\ ~FLe(FInt(0), kwargs["casewidth"])
        \/ "start" \in DOMAIN kwargs
              /\ ~FLt(FAbs(kwargs["start"]), FInt(360))
        \/ "extent" \in DOMAIN kwargs
              /\ ~FLe(FAbs(kwargs["extent"]), FInt(360))
        \/ "majorscale" \in DOMAIN kwargs
              /\ ~FLt(FInt(0), kwargs["majorscale"])
        \/ "semimajorscale" \in DOMAIN kwargs
              /\ ~FLe(FInt(0), kwargs["semimajorscale"])
        \/ "minorscale" \in DOMAIN kwargs
              /\ ~FLe(FInt(0), kwargs["minorscale"])
        \/ DOMAIN kwargs \ DialKnown # {}
        \/ Arg(kwargs, DialDefaults, "min") = Arg(kwargs, DialDefaults, "max")
    ) : kwargs \in {kwargs0} })

\* The semimajorscale the ticks are drawn with, and the warnings of the check
\* of it against majorscale.
SemiMajor_no_ge(majorscale0, semimajorscale0) ==
    The({ (
        IF semimajorscale = FInt(0)
        THEN [scale |-> semimajorscale, warnings |-> {}]
        ELSE IF FMod(majorscale, semimajorscale) # FInt(0)
        THEN [scale |-> FInt(0), warnings |-> {"semimajorscale factor"}]
        ELSE [scale |-> semimajorscale, warnings |-> {}]
    ) : majorscale \in {majorscale0}, semimajorscale \in {semimajorscale0} })

SemiMajor(majorscale0, semimajorscale0) ==
    The({ (
        IF semimajorscale = FInt(0)
        THEN [scale |-> semimajorscale, warnings |-> {}]
        ELSE IF ~FLt(semimajorscale, majorscale)
        THEN [scale |-> FInt(0), warnings |-> {"semimajorscale >= majorscale"}]
        ELSE IF FMod(majorscale, semimajorscale) # FInt(0)
        THEN [scale |-> FInt(0), warnings |-> {"semimajorscale factor"}]
        ELSE [scale |-> semimajorscale, warnings |-> {}]
    ) : majorscale \in {majorscale0}, semimajorscale \in {semimajorscale0} })

\* The width of the case a Dial or an LED is drawn with, and the warning of
\* the check of it against the size; size / 0 raises ZeroDivisionError, which
\* the constructor catches.
Case_no_clamp(size0, casewidth0) ==
    The({ (
        [casewidth |-> casewidth, warnings |-> {}]
    ) : size \in {size0}, casewidth \in {casewidth0} })

Case(size0, casewidth0) ==
    The({ (
        IF casewidth = FInt(0)
        THEN [casewidth |-> casewidth, warnings |-> {}]
        ELSE IF FLt(FDiv(size, casewidth), FInt(10))
        THEN [casewidth |-> FDiv(size, FInt(10)), warnings |-> {"casewidth"}]
        ELSE [casewidth |-> casewidth, warnings |-> {}]
    ) : size \in {size0}, casewidth \in {casewidth0} })

\* How many ticks a scale of step scale has: int(absdiff / scale) + 1, none at
\* step 0.
Ticks(absdiff0, scale0) ==
    The({ (
        IF scale = FInt(0) THEN 0 ELSE FTrunc(FDiv(absdiff, scale)) + 1
    ) : absdiff \in {absdiff0}, scale \in {scale0} })

\* round(value, self.displayroundto) with displayroundto = 1: the float nearest
\* to value rounded to one decimal, a tie to the even decimal.
Round1(value0) ==
    The({ (
        FDiv(FNearest(XMul(value, FInt(10))), FInt(10))
    ) : value \in {value0} })

\* Dial.set_value
Dial_set_value_no_stop(self0, value0) ==
    The({ (
        The({ (
            IF self.value = v THEN self
            ELSE The({ (
                    [self EXCEPT
                       !.value = v,
                       !.outofbounds = FALSE,
                       !.angle = angle,
                       !.text = IF self.display THEN Round1(v) ELSE @,
                       !.fill = IF self.display THEN "black" ELSE @]
                 ) : angle \in {FAdd(FDiv(FMul(FSub(v, self.min),
                                                FSub(self.end, self.start)),
                                          FSub(self.max, self.min)),
                                     self.start)} })
        ) : v \in {IF value = None THEN self.min ELSE value} })
    ) : self \in {self0}, value \in {value0} })

Dial_set_value_no_start(self0, value0) ==
    The({ (
        The({ (
            IF self.value = v THEN self
            ELSE The({ (
                    The({ (
                        [self EXCEPT
                           !.value = v,
                           !.outofbounds = stop # "none",
                           !.angle = IF stop = "start" THEN self.start
                                     ELSE IF stop = "end" THEN self.end
                                     ELSE angle,
                           !.text = IF self.display THEN Round1(v) ELSE @,
                           !.fill = IF ~self.display THEN @
                                    ELSE IF stop # "none" THEN "red"
                                    ELSE "black"]
                    ) : stop \in {
                          IF ~self.bound THEN "none"
                          ELSE IF FLt(self.min, self.max)
                          THEN IF FLt(v, self.min) THEN "start"
                               ELSE IF FLt(self.max, v) THEN "end"
                               ELSE "none"
                          ELSE IF FLt(self.min, v) THEN "start"
                               ELSE IF FLt(v, self.max) THEN "end"
                               ELSE "none"} })
                 ) : angle \in {FDiv(FMul(FSub(v, self.min),
                                           FSub(self.end, self.start)),
                                     FSub(self.max, self.min))} })
        ) : v \in {IF value = None THEN self.min ELSE value} })
    ) : self \in {self0}, value \in {value0} })

Dial_set_value(self0, value0) ==
    The({ (
        The({ (
            IF self.value = v THEN self
            ELSE The({ (
                    The({ (
                        [self EXCEPT
                           !.value = v,
                           !.outofbounds = stop # "none",
                           !.angle = IF stop = "start" THEN self.start
                                     ELSE IF stop = "end" THEN self.end
                                     ELSE angle,
                           !.text = IF self.display THEN Round1(v) ELSE @,
                           !.fill = IF ~self.display THEN @
                                    ELSE IF stop # "none" THEN "red"
                                    ELSE "black"]
                    ) : stop \in {
                          IF ~self.bound THEN "none"
                          ELSE IF FLt(self.min, self.max)
                          THEN IF FLt(v, self.min) THEN "start"
                               ELSE IF FLt(self.max, v) THEN "end"
                               ELSE "none"
                          ELSE IF FLt(self.min, v) THEN "start"
                               ELSE IF FLt(v, self.max) THEN "end"
                               ELSE "none"} })
                 ) : angle \in {FAdd(FDiv(FMul(FSub(v, self.min),
                                                FSub(self.end, self.start)),
                                          FSub(self.max, self.min)),
                                     self.start)} })
        ) : v \in {IF value = None THEN self.min ELSE value} })
    ) : self \in {self0}, value \in {value0} })

\* Dial.__init__ when it does not raise: the fields it sets, the case and the
\* ticks it draws and the warnings it issues, with the needle at the initial
\* value.
Dial_init(kwargs0) ==
    The({ (
        The({ (
            Dial_set_value(
                [built |-> TRUE, error |-> FALSE,
                 value |-> None,
                 bound |-> IF "bound" \in DOMAIN kwargs
                           THEN kwargs["bound"] # FInt(0)
                           ELSE ~("extent" \in DOMAIN kwargs
                                    /\ FAbs(kwargs["extent"]) = FInt(360)),
                 display |-> Arg(kwargs, DialDefaults, "withdisplay") # FInt(0),
                 start |-> Arg(kwargs, DialDefaults, "start"),
                 end |-> FAdd(Arg(kwargs, DialDefaults, "start"),
                              Arg(kwargs, DialDefaults, "extent")),
                 min |-> Arg(kwargs, DialDefaults, "min"),
                 max |-> Arg(kwargs, DialDefaults, "max"),
                 size |-> Arg(kwargs, DialDefaults, "size"),
                 casewidth |-> case.casewidth,
                 ticks |->
                    [minor |-> Ticks(absdiff,
                                     Arg(kwargs, DialDefaults, "minorscale")),
                     semimajor |-> Ticks(absdiff, semi.scale),
                     major |-> FTrunc(FDiv(absdiff,
                                  Arg(kwargs, DialDefaults, "majorscale")))
                               + (IF FAbs(Arg(kwargs, DialDefaults, "extent"))
                                       # FInt(360) THEN 1 ELSE 0)],
                 warnings |->
                    (IF FLt(Arg(kwargs, DialDefaults, "max"),
                            Arg(kwargs, DialDefaults, "min"))
                     THEN {"min > max"} ELSE {})
                    \cup semi.warnings \cup case.warnings,
                 outofbounds |-> FALSE, angle |-> None, text |-> None,
                 fill |-> "none"],
                Arg(kwargs, DialDefaults, "value"))
        ) : semi \in {SemiMajor(Arg(kwargs, DialDefaults, "majorscale"),
                                Arg(kwargs, DialDefaults, "semimajorscale"))},
            case \in {Case(Arg(kwargs, DialDefaults, "size"),
                           Arg(kwargs, DialDefaults, "casewidth"))},
            absdiff \in {FAbs(FSub(Arg(kwargs, DialDefaults, "max"),
                                   Arg(kwargs, DialDefaults, "min")))} })
    ) : kwargs \in {kwargs0} })

\* The keywords LED.__init__ knows and the values it starts from.
LEDKnown ==
    {"size", "casewidth", "state", "diodecolor", "bulbcolor", "reflectstyle",
     "faderate", "blinkrate"}
LEDDefaults ==
    [size |-> FInt(100), casewidth |-> FInt(10), faderate |-> FInt(0),
     blinkrate |-> FInt(0)]

\* Whether the loop over kwargs of LED.__init__ raises ViewidgetError, in the
\* loop itself or in the rate setter it calls.
LEDRaises(kwargs0) ==
    The({ (
        \/ "size" \in DOMAIN kwargs /\ ~FLt(FInt(0), kwargs["size"])
        \/ "casewidth" \in DOMAIN kwargs /\ ~FLe(FInt(0), kwargs["casewidth"])
        \/ "faderate" \in DOMAIN kwargs /\ RateRaises(kwargs["faderate"])
        \/ "blinkrate" \in DOMAIN kwargs /\ RateRaises(kwargs["blinkrate"])
        \/ DOMAIN kwargs \ LEDKnown # {}
    ) : kwargs \in {kwargs0} })

\* The case LED.__init__ draws when it does not raise.
LED_init_case(kwargs0) ==
    The({ (
        The({ (
            [built |-> TRUE, error |-> FALSE,
             size |-> Arg(kwargs, LEDDefaults, "size"),
             casewidth |-> case.casewidth, warnings |-> case.warnings]
        ) : case \in {Case(Arg(kwargs, LEDDefaults, "size"),
                           Arg(kwargs, LEDDefaults, "casewidth"))} })
    ) : kwargs \in {kwargs0} })

\* A specification of the constructors and of Dial.set_value: the keyword
\* arguments are drawn at first, a constructor is called once with them, and
\* set_value is called on the Dial any number of times.
DialInit ==
    /\ kw \in Kwargs
    /\ dial = Absent
    /\ ledcase = Absent
    /\ digit = Absent
    /\ last = "idle"
    /\ pre = [state |-> OFF, isblinking |-> FALSE]
    /\ raised = FALSE
    /\ state = OFF
    /\ faderate = 0
    /\ blinkrate = 0
    /\ fadeID = 0
    /\ blinkID = 0
    /\ isblinking = FALSE
    /\ brightness = FInt(0)
    /\ afterBlink = {}
    /\ afterFade = {}
    /\ quiet = FALSE
    /\ irregular = 0
    /\ fades = 0

DialConstruct ==
    /\ MayCall
    /\ dial = Absent
    /\ last' = "Dial"
    /\ pre' = [self |-> dial, arg |-> kw]
    /\ raised' = DialRaises(kw)
    /\ dial' = IF DialRaises(kw) THEN Failed ELSE Dial_init(kw)
    /\ UNCHANGED <<LEDVars, kw, ledcase, digit>>

\* LED.__init__(**kw): an LED that is constructed has the rates its keyword
\* arguments set and is turned to the initial state, OFF here.
LEDConstruct ==
    /\ MayCall
    /\ ledcase = Absent
    /\ last' = "LED"
    /\ pre' = [self |-> ledcase, arg |-> kw]
    /\ raised' = LEDRaises(kw)
    /\ ledcase' = IF LEDRaises(kw) THEN Failed ELSE LED_init_case(kw)
    /\ \E s \in {IF LEDRaises(kw) THEN Self
                  ELSE Constructed(OFF, Arg(kw, LEDDefaults, "faderate"),
                                   Arg(kw, LEDDefaults, "blinkrate"))} :
          /\ state' = s.state
          /\ faderate' = s.faderate
          /\ blinkrate' = s.blinkrate
          /\ fadeID' = s.fadeID
          /\ blinkID' = s.blinkID
          /\ isblinking' = s.isblinking
          /\ brightness' = s.brightness
          /\ afterBlink' = s.afterBlink
          /\ afterFade' = s.afterFade
    /\ UNCHANGED <<quiet, irregular, fades, kw, dial, digit>>

DialSetValue(value) ==
    /\ MayCall
    /\ dial.built
    /\ last' = "Dial.set_value"
    /\ pre' = [self |-> dial, arg |-> value]
    /\ raised' = FALSE
    /\ dial' = Dial_set_value(dial, value)
    /\ UNCHANGED <<LEDVars, kw, ledcase, digit>>

DialNext ==
    \/ DialConstruct
    \/ LEDConstruct
    \/ \E value \in DialValues : DialSetValue(value)
    \/ Mainloop

DialSpec == DialInit /\ [][DialNext]_vars

\* ------------------------------------------------------------------- Digit

\* A Python value is <<"int", n>>, <<"str", s>>, None, or <<"list">> for a
\* list, which has no hash.
Hashable(value) == value = None \/ value[1] \in {"int", "str"}

\* Digit.Masks: bit i of the mask of a key is segment i lit.
Masks ==
    (<<"int", 0>> :> \b0111111) @@ (<<"str", "0">> :> \b0111111)
    @@ (<<"int", 1>> :> \b0101000) @@ (<<"str", "1">> :> \b0101000)
    @@ (<<"int", 2>> :> \b1011011) @@ (<<"str", "2">> :> \b1011011)
    @@ (<<"int", 3>> :> \b1101011) @@ (<<"str", "3">> :> \b1101011)
    @@ (<<"int", 4>> :> \b1101100) @@ (<<"str", "4">> :> \b1101100)
    @@ (<<"int", 5>> :> \b1100111) @@ (<<"str", "5">> :> \b1100111)
    @@ (<<"int", 6>> :> \b1110111) @@ (<<"str", "6">> :> \b1110111)
    @@ (<<"int", 7>> :> \b0101001) @@ (<<"str", "7">> :> \b0101001)
    @@ (<<"int", 8>> :> \b1111111) @@ (<<"str", "8">> :> \b1111111)
    @@ (<<"int", 9>> :> \b1101111) @@ (<<"str", "9">> :> \b1101111)
    @@ (<<"int", 10>> :> \b1111101) @@ (<<"str", "a">> :> \b1111101) @@ (<<"str", "A">> :> \b1111101)
    @@ (<<"int", 11>> :> \b1110110) @@ (<<"str", "b">> :> \b1110110) @@ (<<"str", "B">> :> \b1110110)
    @@ (<<"int", 12>> :> \b0010111) @@ (<<"str", "c">> :> \b0010111) @@ (<<"str", "C">> :> \b0010111)
    @@ (<<"int", 13>> :> \b1111010) @@ (<<"str", "d">> :> \b1111010) @@ (<<"str", "D">> :> \b1111010)
    @@ (<<"int", 14>> :> \b1010111) @@ (<<"str", "e">> :> \b1010111) @@ (<<"str", "E">> :> \b1010111)
    @@ (<<"int", 15>> :> \b1010101) @@ (<<"str", "f">> :> \b1010101) @@ (<<"str", "F">> :> \b1010101)

\* The values set_value is called with and the masks set_mask is called with.
DigitValues ==
    DOMAIN Masks
    \cup {None, <<"int", -1>>, <<"int", 16>>, <<"str", "g">>, <<"str", "10">>,
          <<"list">>}
DigitMasks == {0, 1, 64, 85, 127, 128, 213, 255}

\* a & b of integers a, b >= 0
RECURSIVE BitAnd(_, _)
BitAnd(a0, b0) ==
    The({ (
        IF a = 0 \/ b = 0 THEN 0
        ELSE (a % 2) * (b % 2) + 2 * BitAnd(a \div 2, b \div 2)
    ) : a \in {a0}, b \in {b0} })

\* Digit.set_mask; visible[i] is the state of the canvas item
\* self.segments[i]: NORMAL (TRUE) or HIDDEN.
Digit_set_mask_or(self0, mask0) ==
    The({ (
        [self EXCEPT !.visible =
            [i \in 0..6 |-> self.visible[i] \/ BitAnd(2 ^ i, mask) # 0]]
    ) : self \in {self0}, mask \in {mask0} })

Digit_set_mask(self0, mask0) ==
    The({ (
        [self EXCEPT !.visible = [i \in 0..6 |-> BitAnd(2 ^ i, mask) # 0]]
    ) : self \in {self0}, mask \in {mask0} })

\* Digit.set_value with a value that has a hash.
Digit_set_value_keeps_value(self0, value0) ==
    The({ (
        IF value \in DOMAIN Masks
        THEN Digit_set_mask(self, Masks[value])
        ELSE IF value = None
        THEN [Digit_set_mask(self, 0) EXCEPT !.value = None]
        ELSE self
    ) : self \in {self0}, value \in {value0} })

Digit_set_value(self0, value0) ==
    The({ (
        IF value \in DOMAIN Masks
        THEN [Digit_set_mask(self, Masks[value]) EXCEPT !.value = value]
        ELSE IF value = None
        THEN [Digit_set_mask(self, 0) EXCEPT !.value = None]
        ELSE self
    ) : self \in {self0}, value \in {value0} })

\* Digit.__init__ with value=initvalue: seven segments, all drawn visible,
\* then set_value(initvalue).
Digit_init(initvalue0) ==
    The({ (
        Digit_set_value([built |-> TRUE, error |-> FALSE,
                         value |-> <<"int", 8>>,
                         visible |-> [i \in 0..6 |-> TRUE]],
                        initvalue)
    ) : initvalue \in {initvalue0} })

\* A specification of the Digit: it is constructed with some initial value,
\* and set_value and set_mask are called any number of times.
DigitInit ==
    /\ \E initvalue \in {value \in DigitValues : Hashable(value)} :
          digit = Digit_init(initvalue)
    /\ kw = <<>>
    /\ dial = Absent
    /\ ledcase = Absent
    /\ last = "Digit"
    /\ pre = [state |-> OFF, isblinking |-> FALSE]
    /\ raised = FALSE
    /\ state = OFF
    /\ faderate = 0
    /\ blinkrate = 0
    /\ fadeID = 0
    /\ blinkID = 0
    /\ isblinking = FALSE
    /\ brightness = FInt(0)
    /\ afterBlink = {}
    /\ afterFade = {}
    /\ quiet = FALSE
    /\ irregular = 0
    /\ fades = 0

\* "value in self.Masks" hashes value, which raises TypeError for a value
\* that has no hash.
DigitSetValue(value) ==
    /\ MayCall
    /\ last' = "Digit.set_value"
    /\ pre' = [self |-> digit, arg |-> value]
    /\ raised' = ~Hashable(value)
    /\ digit' = IF Hashable(value) THEN Digit_set_value(digit, value)
                ELSE digit
    /\ UNCHANGED <<LEDVars, kw, dial, ledcase>>

DigitSetMask(mask) ==
    /\ MayCall
    /\ last' = "Digit.set_mask"
    /\ pre' = [self |-> digit, arg |-> mask]
    /\ raised' = FALSE
    /\ digit' = Digit_set_mask(digit, mask)
    /\ UNCHANGED <<LEDVars, kw, dial, ledcase>>

DigitNext ==
    \/ \E value \in DigitValues : DigitSetValue(value)
    \/ \E mask \in DigitMasks : DigitSetMask(mask)
    \/ Mainloop

DigitSpec == DigitInit /\ [][DigitNext]_vars

\* ------------------------------------------------------------------ claims

\* C1: at most one callback of blink is pending, it is the one blinkID names,
\* and one is pending exactly when isblinking is True.
C1_OneBlinkTimer ==
    /\ Cardinality(afterBlink) <= 1
    /\ afterBlink \subseteq {blinkID}
    /\ (afterBlink # {}) <=> isblinking

\* A blink callback has run, turned the LED off and scheduled its successor.
C1_Witness ==
    /\ last = "blink_timer"
    /\ pre.state = ON /\ pre.isblinking
    /\ state = OFF /\ isblinking
    /\ afterBlink = {blinkID}

\* C2: at most one callback of _fade is pending, and it belongs to the fade
\* that started last: it is the one fadeID names, it heads for the current
\* state, and no closure of a superseded fade is left to change the brightness.
C2_OneFadeTimer ==
    /\ Cardinality(afterFade) <= 1
    /\ \A c \in afterFade :
          c.id = fadeID /\ ~c.superseded /\ c.target = state

\* fade(OFF) has started at brightness 4/7, in the middle of a fade to ON whose
\* next step was pending, and its own next step is the only one pending.
C2_Witness ==
    /\ last = "fade_off"
    /\ irregular = 0
    /\ pre.state = ON
    /\ Cardinality(afterFade) = 1
    /\ \E c \in afterFade :
          /\ c.target = OFF
          /\ FLt(FInt(39), c.total) /\ FLt(c.total, FInt(41))

\* C3: when turn(OFF) or turnoff() has returned the LED is OFF and not
\* blinking, with no blink callback pending; and an LED that is OFF and not
\* blinking stays so through every timer callback and every call other than
\* turn(ON), turnon, change_state, blink and fade(ON).
C3_TurnOffStaysOff ==
    /\ [](last \in {"turn_off", "turnoff"}
            => state = OFF /\ ~isblinking /\ afterBlink = {})
    /\ [][(/\ state = OFF /\ ~isblinking /\ afterBlink = {}
           /\ last' \notin {"turnon", "turn_on", "change_state", "blink",
                             "fade_on"})
          => (state' = OFF /\ ~isblinking' /\ afterBlink' = {})]_vars

\* turnoff() was called on an LED that was blinking and in its OFF phase.
C3_Witness ==
    /\ last = "turnoff"
    /\ pre.state = OFF /\ pre.isblinking
    /\ state = OFF /\ ~isblinking /\ afterBlink = {}

\* C4: with blinkrate > 0, turning an OFF LED on leaves it blinking; every
\* blink callback toggles state and leaves exactly one blink callback pending;
\* and once no method is called any more, state changes only at blink
\* callbacks, a blinking LED stays blinking, and its state changes again and
\* again for ever.
C4_BlinksRepeatedly ==
    /\ []((last \in {"turnon", "turn_on"} /\ pre.state = OFF /\ blinkrate # 0)
          => (isblinking /\ Cardinality(afterBlink) = 1))
    /\ []((last = "blink_timer" /\ blinkrate # 0)
          => (/\ state = Not(pre.state)
              /\ isblinking
              /\ Cardinality(afterBlink) = 1))
    /\ [][(quiet /\ state' # state) => last' = "blink_timer"]_vars
    /\ [][(quiet /\ isblinking) => isblinking']_vars
    /\ (<>[](quiet /\ isblinking)) => []<><<state' # state>>_vars

\* With no method called any more, a blink callback has turned the LED back on.
C4_Witness ==
    /\ quiet
    /\ blinkrate # 0
    /\ last = "blink_timer"
    /\ pre.state = OFF /\ pre.isblinking
    /\ state = ON /\ isblinking

\* C5: with blinkrate 0 the LED is not blinking and no blink callback is
\* pending, and no timer callback changes state.
C5_NoBlinkAtRateZero ==
    /\ [](blinkrate = 0 => ~isblinking /\ afterBlink = {})
    /\ []((blinkrate = 0 /\ last \in {"blink_timer", "fade_timer"})
          => state = pre.state)

\* set_blinkrate has set the rate of a blinking LED to 0.
C5_Witness ==
    /\ last = "set_blinkrate" /\ ~raised
    /\ pre.isblinking
    /\ blinkrate = 0 /\ ~isblinking /\ afterBlink = {}

\* C6: when turnon() or turn(ON) has returned, state is ON.
C6_TurnOnTurnsOn ==
    last \in {"turnon", "turn_on"} => state = ON

\* C7: when change_state() has returned, state is the opposite of what it was.
C7_ChangeStateToggles ==
    last = "change_state" => state = Not(pre.state)

\* C8: with faderate 0, turning an OFF LED that is not blinking on leaves it ON
\* at brightness 1, and turning an ON LED off leaves it OFF at brightness 0,
\* with no fade callback pending; and fade(st) reaches its target at once and
\* schedules nothing whenever |target - brightness| * faderate <= fadetimestep.
C8_InstantSwitch ==
    /\ []((/\ last \in {"turnon", "turn_on"}
           /\ faderate = 0 /\ pre.state = OFF /\ ~pre.isblinking)
          => (state = ON /\ brightness = FInt(1) /\ afterFade = {}))
    /\ []((/\ last \in {"turnoff", "turn_off"}
           /\ faderate = 0 /\ pre.state = ON)
          => (state = OFF /\ brightness = FInt(0) /\ afterFade = {}))
    /\ [][\A st \in {OFF, ON} :
            (/\ last' \in {"fade_on", "fade_off"}
             /\ Fade(st)
             /\ FLe(XMul(FAbs(XAdd(FInt(st), FNeg(brightness))),
                         FInt(faderate)),
                    FInt(fadetimestep)))
            => (afterFade' = {} /\ brightness' = FInt(st))]_vars

\* turnon() has switched an OFF LED with faderate 0 on.
C8_Witness ==
    /\ last = "turnon"
    /\ faderate = 0
    /\ pre.state = OFF /\ ~pre.isblinking
    /\ state = ON /\ brightness = FInt(1) /\ afterFade = {}

\* C9: a fade that has ended, at once or with its last callback, has left the
\* brightness at its target; and once no method is called any more and the
\* LED is not blinking, the fade callbacks come to an end, after which none is
\* pending and the brightness stays as the last one left it.
C9_FadeReachesTarget ==
    /\ []((last \in {"fade_on", "fade_off", "fade_timer"} /\ afterFade = {})
          => brightness = FInt(state))
    /\ [][(quiet /\ ~isblinking /\ afterFade = {})
            => (afterFade' = {} /\ brightness' = brightness)]_vars
    /\ (<>[](quiet /\ ~isblinking)) => <>[](afterFade = {})

\* With no method called any more, the last callback of a fade to ON has run,
\* one callback of that fade having been late.
C9_Witness ==
    /\ quiet
    /\ last = "fade_timer"
    /\ irregular = 1
    /\ faderate # 0
    /\ pre.state = ON
    /\ state = ON /\ brightness = FInt(1) /\ afterFade = {}

\* C10: the brightness is between 0 and 1, and set_brightness with a level
\* <= 0 stores 0.
C10_BrightnessInRange ==
    /\ [](FLe(FInt(0), brightness) /\ FLe(brightness, FInt(1)))
    /\ [][\A level \in Levels :
            (/\ last' = "set_brightness"
             /\ SetBrightness(level)
             /\ FLe(level, FInt(0)))
            => brightness' = FInt(0)]_vars

\* A step of a fade to ON, taken after a late callback, has computed a
\* brightness above 1 and stored 1, with the next step still pending.
C10_Witness ==
    /\ last = "fade_timer"
    /\ state = ON
    /\ brightness = FInt(1)
    /\ \E c \in afterFade :
          /\ c.target = ON
          /\ \E i \in 1..Len(c.latency) : FLt(FInt(7), c.latency[i])


\* C11: constructing a Dial raises ViewidgetError exactly when size <= 0,
\* casewidth < 0, |start| >= 360, |extent| > 360, majorscale <= 0,
\* semimajorscale < 0, minorscale < 0, min = max or a keyword is unknown; with
\* any other arguments, min > max among them, the Dial is constructed.
C11_DialRaisesExactly ==
    last = "Dial" =>
        LET given(key) == key \in DOMAIN kw
            min == IF given("min") THEN kw["min"] ELSE FInt(60)
            max == IF given("max") THEN kw["max"] ELSE FInt(220)
        IN  /\ raised <=>
                  \/ given("size") /\ FLe(kw["size"], FInt(0))
                  \/ given("casewidth") /\ FLt(kw["casewidth"], FInt(0))
                  \/ given("start") /\ FLe(FInt(360), FAbs(kw["start"]))
                  \/ given("extent") /\ FLt(FInt(360), FAbs(kw["extent"]))
                  \/ given("majorscale") /\ FLe(kw["majorscale"], FInt(0))
                  \/ given("semimajorscale")
                        /\ FLt(kw["semimajorscale"], FInt(0))
                  \/ given("minorscale") /\ FLt(kw["minorscale"], FInt(0))
                  \/ min = max
                  \/ \E key \in DOMAIN kw :
                        key \notin {"size", "casewidth", "start", "extent",
                                    "min", "max", "majorscale",
                                    "semimajorscale", "minorscale", "unit",
                                    "bound", "withdisplay", "value"}
            /\ dial.built <=> ~raised
            /\ dial.error <=> raised

\* A Dial was constructed with min above max.
C11_Witness ==
    /\ last = "Dial"
    /\ dial.built
    /\ FLt(dial.max, dial.min)
    /\ "min > max" \in dial.warnings

\* C12: a semimajorscale above 0 that is at least majorscale, or of which
\* majorscale is no multiple, gets a ViewidgetWarning; the Dial is constructed
\* and no semimajor tick is drawn.  A semimajorscale that is a proper factor
\* of majorscale gets no such warning and its ticks are drawn.
C12_SemiMajorCompatible ==
    last = "Dial" /\ ~raised =>
        LET majorscale == IF "majorscale" \in DOMAIN kw
                          THEN kw["majorscale"] ELSE FInt(20)
            semimajorscale == IF "semimajorscale" \in DOMAIN kw
                              THEN kw["semimajorscale"] ELSE FInt(10)
            multiple == \E k \in 1..FTrunc(majorscale) :
                           XMul(FInt(k), semimajorscale) = majorscale
            warned == dial.warnings \cap {"semimajorscale >= majorscale",
                                          "semimajorscale factor"} # {}
        IN  /\ dial.built
            /\ FLt(FInt(0), semimajorscale)
                  /\ (FLe(majorscale, semimajorscale) \/ ~multiple)
               => warned /\ dial.ticks.semimajor = 0
            /\ FLt(FInt(0), semimajorscale)
                  /\ FLt(semimajorscale, majorscale) /\ multiple
               => ~warned /\ dial.ticks.semimajor > 0

\* A Dial was constructed with a semimajorscale below majorscale that is no
\* factor of it.
C12_Witness ==
    /\ last = "Dial"
    /\ dial.built
    /\ "semimajorscale factor" \in dial.warnings
    /\ dial.ticks.semimajor = 0

\* C13: a Dial and an LED that are constructed use a case width of at most a
\* tenth of the size: a casewidth above size / 10 is replaced by size / 10
\* with a ViewidgetWarning, one in [0, size / 10] is used as given without
\* that warning.
C13_CaseWidthClamped ==
    /\ last = "Dial" /\ ~raised =>
          LET size == IF "size" \in DOMAIN kw THEN kw["size"] ELSE FInt(300)
              casewidth == IF "casewidth" \in DOMAIN kw
                           THEN kw["casewidth"] ELSE FInt(15)
              tenth == FDiv(size, FInt(10))
          IN  /\ FLe(dial.casewidth, tenth)
              /\ dial.casewidth = IF FLt(tenth, casewidth)
                                  THEN tenth ELSE casewidth
              /\ "casewidth" \in dial.warnings <=> FLt(tenth, casewidth)
    /\ last = "LED" /\ ~raised =>
          LET size == IF "size" \in DOMAIN kw THEN kw["size"] ELSE FInt(100)
              casewidth == IF "casewidth" \in DOMAIN kw
                           THEN kw["casewidth"] ELSE FInt(10)
              tenth == FDiv(size, FInt(10))
          IN  /\ FLe(ledcase.casewidth, tenth)
              /\ ledcase.casewidth = IF FLt(tenth, casewidth)
                                     THEN tenth ELSE casewidth
              /\ "casewidth" \in ledcase.warnings <=> FLt(tenth, casewidth)

\* An LED was constructed with a casewidth of half its size, and uses a tenth.
C13_Witness ==
    /\ last = "LED"
    /\ ledcase.built
    /\ "casewidth" \in DOMAIN kw
    /\ FLt(ledcase.casewidth, kw["casewidth"])
    /\ ledcase.casewidth = FDiv(ledcase.size, FInt(10))
    /\ "casewidth" \in ledcase.warnings

\* C14: on a bound Dial, set_value(v) with a value that is new leaves
\* outofbounds True exactly when v is outside the closed interval between min
\* and max; the needle is at start when v is beyond the min end and at
\* start + extent when v is beyond the max end, on an increasing and on a
\* decreasing scale alike; the readout has the alert colour exactly when
\* outofbounds is True.
C14_BoundDialStops ==
    last = "Dial.set_value" /\ pre.self.bound =>
        LET min == IF "min" \in DOMAIN kw THEN kw["min"] ELSE FInt(60)
            max == IF "max" \in DOMAIN kw THEN kw["max"] ELSE FInt(220)
            start == IF "start" \in DOMAIN kw THEN kw["start"] ELSE FInt(225)
            extent == IF "extent" \in DOMAIN kw
                      THEN kw["extent"] ELSE FInt(-270)
            v == IF pre.arg = None THEN min ELSE pre.arg
            lo == IF FLt(min, max) THEN min ELSE max
            hi == IF FLt(min, max) THEN max ELSE min
            pastmin == IF FLt(min, max) THEN FLt(v, min) ELSE FLt(min, v)
            pastmax == IF FLt(min, max) THEN FLt(max, v) ELSE FLt(v, max)
        IN  v # pre.self.value =>
               /\ dial.value = v
               /\ dial.outofbounds <=> (FLt(v, lo) \/ FLt(hi, v))
               /\ pastmin => dial.angle = start
               /\ pastmax => dial.angle = FAdd(start, extent)
               /\ dial.display => (dial.fill = "red" <=> dial.outofbounds)

\* A bound Dial with a decreasing scale was set to a value above min: the
\* needle stopped at start and the readout is red.
C14_Witness ==
    /\ last = "Dial.set_value"
    /\ dial.bound
    /\ FLt(dial.max, dial.min)
    /\ pre.arg # None
    /\ pre.arg # pre.self.value
    /\ FLt(dial.min, pre.arg)
    /\ dial.outofbounds
    /\ dial.angle = dial.start
    /\ dial.fill = "red"

\* C19: after set_value(v) with a value that is new, on an unbound Dial or on
\* a bound one with v within [min, max], the needle is at the angle
\* start + (v - min) * extent / (max - min); on an unbound Dial this holds for
\* v outside [min, max] too, and outofbounds is always False.
C19_NeedleAngle ==
    /\ last = "Dial.set_value" =>
          LET min == IF "min" \in DOMAIN kw THEN kw["min"] ELSE FInt(60)
              max == IF "max" \in DOMAIN kw THEN kw["max"] ELSE FInt(220)
              start == IF "start" \in DOMAIN kw THEN kw["start"] ELSE FInt(225)
              extent == IF "extent" \in DOMAIN kw
                        THEN kw["extent"] ELSE FInt(-270)
              v == IF pre.arg = None THEN min ELSE pre.arg
              lo == IF FLt(min, max) THEN min ELSE max
              hi == IF FLt(min, max) THEN max ELSE min
          IN  /\ v # pre.self.value
              /\ ~pre.self.bound \/ (FLe(lo, v) /\ FLe(v, hi))
              => dial.angle =
                    FAdd(start, FDiv(FMul(FSub(v, min), extent),
                                     FSub(max, min)))
    /\ dial.built /\ ~dial.bound => ~dial.outofbounds

\* An unbound Dial was set to a value above max, and the needle went past
\* the end of the scale.
C19_Witness ==
    /\ last = "Dial.set_value"
    /\ ~dial.bound
    /\ FLt(dial.min, dial.max)
    /\ pre.arg # None
    /\ pre.arg # pre.self.value
    /\ FLt(dial.max, pre.arg)
    /\ ~dial.outofbounds
    /\ FLt(FInt(0), FSub(dial.end, dial.start))
    /\ FLt(dial.end, dial.angle)

\* C15: set_value(v) with v an integer 0..15 or one of the characters
\* '0'-'9', 'a'-'f', 'A'-'F' makes segment i visible exactly when bit i of
\* Masks[v] is 1 and stores v; the integer, the lower-case and the upper-case
\* form of a hexadecimal digit show the same segments; set_value(None) hides
\* the seven segments and stores None.
C15_SetValueShowsMask ==
    last = "Digit.set_value" =>
        LET v == pre.arg
            lower == <<"0", "1", "2", "3", "4", "5", "6", "7", "8", "9",
                       "a", "b", "c", "d", "e", "f">>
            upper == <<"0", "1", "2", "3", "4", "5", "6", "7", "8", "9",
                       "A", "B", "C", "D", "E", "F">>
            valid == \/ v # None /\ v[1] = "int" /\ v[2] \in 0..15
                     \/ v # None /\ v[1] = "str"
                           /\ \E n \in 1..16 : v[2] \in {lower[n], upper[n]}
            digitof == IF v[1] = "int" THEN v[2]
                       ELSE CHOOSE n \in 0..15 :
                               v[2] \in {lower[n + 1], upper[n + 1]}
        IN  /\ valid =>
               /\ ~raised
               /\ digit.value = v
               /\ \A i \in 0..6 :
                     digit.visible[i] <=> (Masks[v] \div 2 ^ i) % 2 = 1
               /\ Masks[v] = Masks[<<"int", digitof>>]
            /\ v = None =>
               /\ ~raised
               /\ digit.value = None
               /\ \A i \in 0..6 : ~digit.visible[i]

\* set_value('B') has replaced another display by the segments of 0xb.
C15_Witness ==
    /\ last = "Digit.set_value"
    /\ pre.arg = <<"str", "B">>
    /\ pre.self.visible # digit.visible
    /\ digit.value = <<"str", "B">>
    /\ digit.visible = [i \in 0..6 |-> i \in {1, 2, 4, 5, 6}]

\* C16: set_value with a value that is neither a key of Digit.Masks nor None
\* leaves the stored value and the visibility of the segments as they were
\* and raises no error.
C16_InvalidValueIgnored ==
    last = "Digit.set_value" /\ pre.arg \notin DOMAIN Masks /\ pre.arg # None
    => /\ digit.value = pre.self.value
       /\ digit.visible = pre.self.visible
       /\ ~raised

\* set_value was called with a value that is no key of Masks and has a hash:
\* the Digit is as it was and nothing was raised.
C16_Witness ==
    /\ last = "Digit.set_value"
    /\ pre.arg = <<"int", 16>>
    /\ digit = pre.self
    /\ ~raised

\* C17: set_mask(mask) with an integer mask >= 0 makes segment i, for i in
\* 0..6, visible exactly when bit i of mask is 1, whatever was displayed
\* before; bits above bit 6 have no effect; the stored value stays.
C17_SetMaskBits ==
    last = "Digit.set_mask" =>
        /\ ~raised
        /\ \A i \in 0..6 :
              digit.visible[i] <=> (pre.arg \div 2 ^ i) % 2 = 1
        /\ digit.visible =
              [i \in 0..6 |-> ((pre.arg % 128) \div 2 ^ i) % 2 = 1]
        /\ digit.value = pre.self.value

\* set_mask with bit 7 set has hidden a segment that was visible.
C17_Witness ==
    /\ last = "Digit.set_mask"
    /\ pre.arg >= 128
    /\ \E i \in 0..6 : pre.self.visible[i] /\ ~digit.visible[i]
    /\ \E i \in 0..6 : digit.visible[i]

\* C18: set_blinkrate and set_faderate raise ViewidgetError for a rate below
\* 0 and then leave blinkrate, faderate, state, isblinking and the pending
\* timers as they were; for a rate of 0 or more they never raise and store
\* the rate rounded to an integer.
C18_RateSetters ==
    [][/\ \A rate \in BlinkRates :
             SetBlinkrate(rate) =>
                IF FLt(rate, FInt(0))
                THEN /\ raised'
                     /\ UNCHANGED <<blinkrate, faderate, state, isblinking,
                                    afterBlink, afterFade>>
                ELSE /\ ~raised'
                     /\ blinkrate' \in Int
                     /\ FLe(FAbs(FSub(FInt(blinkrate'), rate)),
                            FDiv(FInt(1), FInt(2)))
       /\ \A rate \in FadeRates :
             SetFaderate(rate) =>
                IF FLt(rate, FInt(0))
                THEN /\ raised'
                     /\ UNCHANGED <<blinkrate, faderate, state, isblinking,
                                    afterBlink, afterFade>>
                ELSE /\ ~raised'
                     /\ faderate' \in Int
                     /\ FLe(FAbs(FSub(FInt(faderate'), rate)),
                            FDiv(FInt(1), FInt(2)))]_vars

\* A rate setter raised while the LED was blinking with a fade under way.
C18_Witness ==
    /\ last \in {"set_blinkrate", "set_faderate"}
    /\ raised
    /\ isblinking
    /\ afterBlink # {}
    /\ afterFade # {}
    /\ blinkrate > 0

=============================================================================
